---- MODULE Spec2Model ----
(***************************************************************************)
(* Payment-gated settlement pipeline of x402Kalshi: POST /trade            *)
(* (server.py execute_trade) with its collaborators X402Handler,           *)
(* EscrowHandler, KalshiTradeExecutor, KalshiPriceChecker and Ledger.      *)
(*                                                                         *)
(* Amounts are integers in micro-USD (the 6-decimal fixed point of USDC);  *)
(* strings that the code inspects character by character (the              *)
(* PAYMENT-SIGNATURE header) are sequences of one-character strings.       *)
(***************************************************************************)
EXTENDS Integers, Sequences, FiniteSets, TLC

(* ------------------------------------------------------------------ *)
(* Bounds of the model                                                 *)
(* ------------------------------------------------------------------ *)
NumReqs == 2
MaxQty == 2
MaxLogs == 2

(* ------------------------------------------------------------------ *)
(* Program constants                                                   *)
(* ------------------------------------------------------------------ *)
HashChars == 64
HashBytes == 32
MicroPerUsd == 1000000

(* one cent, and the 0.01 USD of the amount checks, in 1e-6 USD *)
MicroPerCent == MicroPerUsd \div 100
Tolerance == MicroPerUsd \div 100

None == "None"

(* ------------------------------------------------------------------ *)
(* Strings as character sequences                                      *)
(* ------------------------------------------------------------------ *)
HexDigits ==
    {"0","1","2","3","4","5","6","7","8","9",
     "a","b","c","d","e","f","A","B","C","D","E","F"}

Whitespace == {" "}

RECURSIVE Fill(_, _)
Fill(c, n) == IF n <= 0 THEN <<>> ELSE <<c>> \o Fill(c, n - 1)

(* str.replace('0x', ''): one left-to-right pass removing every        *)
(* non-overlapping occurrence of "0x".                                 *)
Replace0x(s) ==
    LET replace[t \in Seq(STRING)] ==
            IF Len(t) < 2 THEN t
            ELSE IF t[1] = "0" /\ t[2] = "x"
                 THEN replace[SubSeq(t, 3, Len(t))]
                 ELSE <<t[1]>> \o replace[Tail(t)]
    IN  replace[s]

(* bytes.fromhex: whitespace is skipped before each byte, then two hex *)
(* digits are required. ok = FALSE stands for ValueError; bytes is the *)
(* byte string written as the sequence of its hex digits.              *)
FromHex(s) ==
    LET parses[t \in Seq(STRING)] ==
            IF t = <<>> THEN TRUE
            ELSE IF t[1] \in Whitespace THEN parses[Tail(t)]
            ELSE /\ Len(t) >= 2 /\ t[1] \in HexDigits /\ t[2] \in HexDigits
                 /\ parses[SubSeq(t, 3, Len(t))]
         digits[t \in Seq(STRING)] ==
            IF t = <<>> THEN <<>>
            ELSE IF t[1] \in Whitespace THEN digits[Tail(t)]
            ELSE <<t[1], t[2]>> \o digits[SubSeq(t, 3, Len(t))]
    IN  IF parses[s] THEN [ok |-> TRUE, bytes |-> digits[s]]
        ELSE [ok |-> FALSE, bytes |-> <<>>]

(* len() of a bytes value produced by FromHex *)
BytesLen(b) == Len(b) \div 2

(* server.py: is_trade_hash = len(payment_signature.replace('0x', '')) == 64 *)
IsTradeHash(payment_signature) == Len(Replace0x(payment_signature)) = HashChars

(* server.py lines 156-169 and 199-201: which verifier a proof is given *)
(* to; "ValueError" is bytes.fromhex failing inside the escrow branch   *)
ProofRoute(escrow_on, payment_signature) ==
    IF escrow_on /\ IsTradeHash(payment_signature)
    THEN LET hex == FromHex(Replace0x(payment_signature))
         IN  IF ~hex.ok THEN "ValueError"
             ELSE IF BytesLen(hex.bytes) # HashBytes THEN "invalid_format"
             ELSE "verify_deposit"
    ELSE "verify_payment"

(* ------------------------------------------------------------------ *)
(* Addresses: an identity and the letter case it is written in         *)
(* ------------------------------------------------------------------ *)
Addr(id, cs) == [id |-> id, cs |-> cs]

(* str.lower() *)
Lower(a) == [a EXCEPT !.cs = "lower"]

(* "0x0000000000000000000000000000000000000000" has no letters *)
ZeroAddress == Addr("zero", "lower")

Abs(x) == IF x < 0 THEN -x ELSE x

(* ------------------------------------------------------------------ *)
(* Chain registry (chain_config.CHAIN_CONFIGS, imported by             *)
(* x402_handler.py and escrow_handler.py)                              *)
(* ------------------------------------------------------------------ *)
ChainOrder == <<"ethereum", "base", "polygon">>

ChainNames == {ChainOrder[i] : i \in 1..Len(ChainOrder)}

UsdcId == [ethereum |-> "usdc@ethereum", base |-> "usdc@base",
           polygon |-> "usdc@polygon"]

ChainConfigs == [c \in ChainNames |-> [usdc_address |-> Addr(UsdcId[c], "checksum")]]

(* CHAIN_CONFIGS.get(chain, CHAIN_CONFIGS["ethereum"]) *)
ConfigOf(chain) ==
    IF chain \in ChainNames THEN ChainConfigs[chain] ELSE ChainConfigs["ethereum"]

(* ------------------------------------------------------------------ *)
(* EscrowHandler.verify_deposit                                        *)
(* ------------------------------------------------------------------ *)
(* what getTrade(trade_hash).call() gives: a decoded record, or an      *)
(* exception (transport or decoding failure)                           *)
RpcError == [ok |-> FALSE]

Fetched(trade) == [ok |-> TRUE, trade |-> trade]

EmptyInfo == [empty |-> TRUE]

(* amount / 1_000_000: USD amounts are carried in the model as exact   *)
(* counts of 1e-6 USD, so the raw 6-decimal value n stands for n/1e6.  *)
RawToUsd(raw) == raw

IsActiveIgnoringTerminal(trade) == trade.agent # ZeroAddress
IsActive(trade) ==
    LET exists == trade.agent # ZeroAddress
    IN  exists /\ ~trade.released /\ ~trade.refunded

verify_deposit_exists(read) ==
    IF ~read.ok
    THEN [active |-> FALSE, info |-> EmptyInfo]
    ELSE LET trade == read.trade
         IN  [active |-> trade.agent # ZeroAddress,
              info |-> [empty |-> FALSE,
                        agent |-> trade.agent,
                        recipient |-> trade.recipient,
                        amount |-> RawToUsd(trade.amount),
                        kalshi_trade_id |-> trade.kalshiTradeId,
                        deadline |-> trade.deadline,
                        released |-> trade.released,
                        refunded |-> trade.refunded]]

verify_deposit(read) ==
    IF ~read.ok
    THEN [active |-> FALSE, info |-> EmptyInfo]
    ELSE LET trade == read.trade
         IN  [active |-> IsActive(trade),
              info |-> [empty |-> FALSE,
                        agent |-> trade.agent,
                        recipient |-> trade.recipient,
                        amount |-> RawToUsd(trade.amount),
                        kalshi_trade_id |-> trade.kalshiTradeId,
                        deadline |-> trade.deadline,
                        released |-> trade.released,
                        refunded |-> trade.refunded]]

(* server.py: abs(trade_info["amount"] - required_payment) > 0.01 *)
EscrowAmountMismatchUnderpaidOnly(amount, required) == amount < required - Tolerance
EscrowAmountMismatch(amount, required) == Abs(amount - required) > Tolerance

(* x402_handler.py: abs(amount_usdc - expected_amount) < 0.01 *)
TransferAmountMatchesClosed(amount_usdc, expected) == Abs(amount_usdc - expected) <= Tolerance
TransferAmountMatches(amount_usdc, expected) == Abs(amount_usdc - expected) < Tolerance

(* ------------------------------------------------------------------ *)
(* X402Handler._verify_on_chain                                        *)
(*                                                                     *)
(* rpc[chain] is what that chain's node answers about the transaction: *)
(*   tx      "found" | "missing"   get_transaction (missing = raises)  *)
(*   receipt "error" | "none" | "failed" | "ok"                        *)
(*   refetch "found" | "missing"   the second get_transaction          *)
(*   to      tx.to, an address or NoAddress                            *)
(*   logs    receipt.logs                                              *)
(* ------------------------------------------------------------------ *)
NoAddress == Addr("none", "lower")

(* if not tx_hash.startswith('0x'): tx_hash = '0x' + tx_hash *)
Ensure0x(tx_hash) ==
    IF Len(tx_hash) >= 2 /\ tx_hash[1] = "0" /\ tx_hash[2] = "x"
    THEN tx_hash
    ELSE <<"0", "x">> \o tx_hash

(* a node knows only 32-byte hashes: "0x" and 64 hex digits *)
IsTxHash(tx_hash) ==
    /\ Len(tx_hash) = HashChars + 2
    /\ tx_hash[1] = "0" /\ tx_hash[2] = "x"
    /\ \A i \in 3..Len(tx_hash) : tx_hash[i] \in HexDigits

(* w3.eth.get_transaction(tx_hash) on one chain: TRUE when it returns *)
GetTransaction(rpc, chain, tx_hash) ==
    IsTxHash(tx_hash) /\ rpc[chain].tx = "found"

RECURSIVE DetectChainLast(_, _, _)
DetectChainLast(rpc, tx_hash, i) ==
    IF i > Len(ChainOrder) THEN None
    ELSE LET later == DetectChainLast(rpc, tx_hash, i + 1)
         IN  IF later # None THEN later
             ELSE IF GetTransaction(rpc, ChainOrder[i], tx_hash) THEN ChainOrder[i]
             ELSE None

(* for chain_name, config in CHAIN_CONFIGS.items(): first chain whose  *)
(* probe returns a transaction; a probe that raises is skipped         *)
RECURSIVE DetectChain(_, _, _)
DetectChain(rpc, tx_hash, i) ==
    IF i > Len(ChainOrder) THEN None
    ELSE IF GetTransaction(rpc, ChainOrder[i], tx_hash) THEN ChainOrder[i]
    ELSE DetectChain(rpc, tx_hash, i + 1)

RECURSIVE ScanLogsStopAtMismatch(_, _, _, _, _)
ScanLogsStopAtMismatch(logs, i, usdc_address, recipient_lower, expected_amount) ==
    IF i > Len(logs) THEN [found |-> FALSE, scanned |-> Len(logs)]
    ELSE LET log == logs[i]
             next == ScanLogsStopAtMismatch(logs, i + 1, usdc_address,
                                            recipient_lower, expected_amount)
         IN  IF Lower(log.address) # Lower(usdc_address) THEN next
             ELSE IF ~log.decodes THEN next
             ELSE IF Lower(log.to) = recipient_lower
                  THEN [found |-> TransferAmountMatches(RawToUsd(log.value),
                                                        expected_amount),
                        scanned |-> i]
                  ELSE next

(* for log in receipt.logs: ... ; scanned is the index of the last log  *)
(* looked at                                                           *)
RECURSIVE ScanLogs(_, _, _, _, _)
ScanLogs(logs, i, usdc_address, recipient_lower, expected_amount) ==
    IF i > Len(logs) THEN [found |-> FALSE, scanned |-> Len(logs)]
    ELSE LET log == logs[i]
             next == ScanLogs(logs, i + 1, usdc_address, recipient_lower,
                              expected_amount)
         IN  IF Lower(log.address) # Lower(usdc_address) THEN next
             ELSE IF ~log.decodes THEN next
             ELSE IF /\ Lower(log.to) = recipient_lower
                     /\ TransferAmountMatches(RawToUsd(log.value), expected_amount)
                  THEN [found |-> TRUE, scanned |-> i]
                  ELSE next

OnChainResult(result, chain, scanned, raised) ==
    [result |-> result, chain |-> chain, scanned |-> scanned, raised |-> raised]

(* the body of the outer try; "raised" marks an exception that reaches  *)
(* the outer handler                                                   *)
VerifyOnChainBodySkipStatus(tx_hash, expected_amount, recipient_address, chain, rpc) ==
    LET h == Ensure0x(tx_hash)
        detected == IF chain = None THEN DetectChain(rpc, h, 1) ELSE chain
        used == IF detected = None THEN "ethereum" ELSE detected
        node == IF used \in ChainNames THEN used ELSE "ethereum"
        config == ConfigOf(used)
        w == rpc[node]
        recipient_lower == IF recipient_address = NoAddress
                           THEN NoAddress ELSE Lower(recipient_address)
    IN  IF ~GetTransaction(rpc, node, h) THEN OnChainResult(FALSE, used, 0, FALSE)
        ELSE IF w.receipt \in {"error", "none"}
             THEN OnChainResult(FALSE, used, 0, FALSE)
        ELSE IF w.refetch # "found" THEN OnChainResult(FALSE, used, 0, TRUE)
        ELSE IF w.to = NoAddress \/ Lower(w.to) # Lower(config.usdc_address)
             THEN OnChainResult(FALSE, used, 0, FALSE)
        ELSE LET scan == ScanLogs(w.logs, 1, config.usdc_address,
                                  recipient_lower, expected_amount)
             IN  OnChainResult(scan.found, used, scan.scanned, FALSE)

VerifyOnChainBody(tx_hash, expected_amount, recipient_address, chain, rpc) ==
    LET h == Ensure0x(tx_hash)
        detected == IF chain = None THEN DetectChain(rpc, h, 1) ELSE chain
        used == IF detected = None THEN "ethereum" ELSE detected
        node == IF used \in ChainNames THEN used ELSE "ethereum"
        config == ConfigOf(used)
        w == rpc[node]
        recipient_lower == IF recipient_address = NoAddress
                           THEN NoAddress ELSE Lower(recipient_address)
    IN  IF ~GetTransaction(rpc, node, h) THEN OnChainResult(FALSE, used, 0, FALSE)
        ELSE IF w.receipt \in {"error", "none"}
             THEN OnChainResult(FALSE, used, 0, FALSE)
        ELSE IF w.receipt # "ok" THEN OnChainResult(FALSE, used, 0, FALSE)
        ELSE IF w.refetch # "found" THEN OnChainResult(FALSE, used, 0, TRUE)
        ELSE IF w.to = NoAddress \/ Lower(w.to) # Lower(config.usdc_address)
             THEN OnChainResult(FALSE, used, 0, FALSE)
        ELSE LET scan == ScanLogs(w.logs, 1, config.usdc_address,
                                  recipient_lower, expected_amount)
             IN  OnChainResult(scan.found, used, scan.scanned, FALSE)

(* try: ... except Exception: return False *)
verify_on_chain(tx_hash, expected_amount, recipient_address, chain, rpc) ==
    LET body == VerifyOnChainBody(tx_hash, expected_amount, recipient_address,
                                  chain, rpc)
    IN  IF body.raised
        THEN OnChainResult(FALSE, body.chain, body.scanned, FALSE)
        ELSE body

(* ------------------------------------------------------------------ *)
(* X402Handler.verify_payment                                          *)
(*                                                                     *)
(* fac is what requests.post(facilitator/verify) does:                 *)
(*   kind   "response" | "timeout" | "connection_error"                *)
(*   status the HTTP status of a response                              *)
(*   body   "verified_true" | "verified_false" | "no_field" | "not_json"*)
(*   json_error  the class response.json() raises on a body that is not *)
(*          JSON in the installed requests: "RequestException"         *)
(*          (requests.exceptions.JSONDecodeError) or "ValueError"      *)
(* ------------------------------------------------------------------ *)
HttpOk == 200

FacAnswer(kind, status, body, json_error) ==
    [kind |-> kind, status |-> status, body |-> body, json_error |-> json_error]

PaymentResult(result, on_chain) == [result |-> result, on_chain |-> on_chain]

verify_payment_fail_closed(payment_proof, expected_amount, recipient_address, chain, fac, rpc) ==
    IF fac.kind = "response" /\ fac.status = HttpOk /\ fac.body # "not_json"
    THEN PaymentResult(fac.body = "verified_true", FALSE)
    ELSE PaymentResult(FALSE, FALSE)

verify_payment(payment_proof, expected_amount, recipient_address, chain, fac, rpc) ==
    LET on_chain == verify_on_chain(payment_proof, expected_amount,
                                    recipient_address, chain, rpc).result
    IN  IF fac.kind = "response"
        THEN IF fac.status = HttpOk
             THEN IF fac.body = "not_json"
                  THEN IF fac.json_error = "RequestException"
                       THEN PaymentResult(on_chain, TRUE)
                       ELSE PaymentResult(FALSE, FALSE)
                  ELSE PaymentResult(fac.body = "verified_true", FALSE)
             ELSE PaymentResult(on_chain, TRUE)
        ELSE PaymentResult(on_chain, TRUE)

(* ------------------------------------------------------------------ *)
(* X402Handler.require_payment                                         *)
(* ------------------------------------------------------------------ *)
RequirePaymentParams ==
    {"amount_usd", "currency", "recipient_address", "memo", "chain"}

NoAmount == 0 - 1

Response(status, error, required_amount, refunded, header_amount, trade_id, total_cost) ==
    [status |-> status, error |-> error, required_amount |-> required_amount,
     refunded |-> refunded, header_amount |-> header_amount,
     trade_id |-> trade_id, total_cost |-> total_cost]

Absent == "absent"

(* a JSON boolean of a response body *)
JsonBool(b) == IF b THEN "true" ELSE "false"

NoResponse == Response(0, None, NoAmount, Absent, NoAmount, 0, NoAmount)

(* Flask's answer to an exception that leaves the view function *)
InternalServerError ==
    Response(500, "Internal Server Error", NoAmount, Absent, NoAmount, 0, NoAmount)

(* kwargs is the record of keyword arguments of the call; a keyword the *)
(* signature does not declare is a TypeError, which leaves the view     *)
require_payment(kwargs) ==
    IF DOMAIN kwargs \subseteq RequirePaymentParams
    THEN Response(402, None, NoAmount, Absent, kwargs.amount_usd, 0, NoAmount)
    ELSE InternalServerError

(* ------------------------------------------------------------------ *)
(* State                                                               *)
(* ------------------------------------------------------------------ *)
VARIABLES
    escrowOn,   \* server.py: escrow_handler is not None
    pc,         \* per request: where execute_trade stands
    req,        \* per request: body and headers
    price,      \* per request: current_price, in 1e-6 USD (NoAmount before the quote)
    tradeId,    \* per request: trade_id returned by the exchange (0 = None)
    nonce,      \* per request: nonce read by release_funds / refund_funds
    resp,       \* per request: the HTTP response
    calls,      \* per request: collaborator calls made, in order
    obs,        \* per request: what the verification step was told
    escrow,     \* escrow contract storage: trade hash -> record
    mempool,    \* settlement transactions submitted and not yet mined
    txCount,    \* mined transactions of the service account
    ledger,     \* rows of the trades table
    orders,     \* orders accepted by the exchange so far
    unitCall,   \* a direct call of one operation: its name and arguments
    unitRet     \* and what it returned

vars == <<escrowOn, pc, req, price, tradeId, nonce, resp, calls, obs, escrow,
          mempool, txCount, ledger, orders, unitCall, unitRet>>

pipelineVars == <<escrowOn, pc, req, price, tradeId, nonce, resp, calls, obs,
                  escrow, mempool, txCount, ledger, orders>>

Reqs == 1..NumReqs

(* ------------------------------------------------------------------ *)
(* Deployment and inputs                                               *)
(* ------------------------------------------------------------------ *)
QuoteCents == 55

(* price_checker: price_cents / 100.0 *)
CentsToUsd(price_cents) == price_cents * MicroPerCent

Unit == CentsToUsd(QuoteCents)

(* os.getenv("X402_RECIPIENT_ADDRESS"), os.getenv("X402_CHAIN", "ethereum") *)
RecipientAddress == Addr("recipient", "checksum")
EnvChain == "ethereum"

OtherAddress == Addr("other", "checksum")
AgentAddress == Addr("agent", "checksum")

HashA == Fill("a", HashChars)

Prefixed(s) == <<"0", "x">> \o s

NoProof == <<>>

TxRef == Prefixed(<<"a", "b">>)

NotHex == Fill("g", HashChars)

Proofs == {NoProof, HashA, Prefixed(HashA), NotHex, TxRef}

JsonInt(n) == [t |-> "int", v |-> n]
JsonNull == [t |-> "null", v |-> 0]
JsonStr == [t |-> "str", v |-> 0]

Request(has_body, contract, quantity, side, agent, proof) ==
    [has_body |-> has_body, contract |-> contract, quantity |-> quantity,
     side |-> side, agent |-> agent, proof |-> proof]

NoRequest == Request(FALSE, "", JsonNull, "", "", NoProof)

ValidRequests ==
    { Request(TRUE, "ABC-1", JsonInt(1), "yes", "agent-7", p) : p \in Proofs }
    \cup
    { Request(TRUE, "ABC-1", JsonInt(q), "no", "agent-9", HashA) : q \in 2..MaxQty }

MalformedRequests ==
    { Request(FALSE, "", JsonNull, "", "unknown", NoProof),
      Request(TRUE, "", JsonInt(1), "yes", "unknown", NoProof),
      Request(TRUE, "ABC-1", JsonNull, "yes", "unknown", HashA),
      Request(TRUE, "ABC-1", JsonInt(0), "yes", "unknown", HashA),
      Request(TRUE, "ABC-1", JsonInt(0 - 1), "no", "unknown", HashA),
      Request(TRUE, "ABC-1", JsonStr, "no", "unknown", HashA),
      Request(TRUE, "ABC-1", JsonInt(1), "maybe", "unknown", HashA) }

Requests == ValidRequests \cup MalformedRequests

(* the escrow contract's storage slot of a trade hash nobody deposited to *)
Trade(agent, recipient, amount, released, refunded) ==
    [agent |-> agent, recipient |-> recipient, amount |-> amount,
     kalshiTradeId |-> 0, deadline |-> 0,
     released |-> released, refunded |-> refunded]

ZeroTrade == Trade(ZeroAddress, ZeroAddress, 0, FALSE, FALSE)

EscrowKeys == {HashA}

Deposits ==
    { ZeroTrade,
      Trade(AgentAddress, RecipientAddress, Unit, FALSE, FALSE),
      Trade(AgentAddress, Lower(RecipientAddress), Unit + Tolerance, FALSE, FALSE),
      Trade(AgentAddress, RecipientAddress, Unit + Tolerance + 1, FALSE, FALSE),
      Trade(AgentAddress, OtherAddress, Unit, FALSE, FALSE),
      Trade(AgentAddress, RecipientAddress, Unit, TRUE, FALSE),
      Trade(AgentAddress, RecipientAddress, Unit, FALSE, TRUE) }

(* what the node, the facilitator and the exchange may answer *)
ChainWorld(tx, receipt, refetch, to, logs) ==
    [tx |-> tx, receipt |-> receipt, refetch |-> refetch, to |-> to, logs |-> logs]

TransferLog(address, decodes, to, value) ==
    [address |-> address, decodes |-> decodes, to |-> to, value |-> value]

UsdcOf(chain) == ConfigOf(chain).usdc_address

PaidWorld ==
    ChainWorld("found", "ok", "found", UsdcOf(EnvChain),
               <<TransferLog(UsdcOf(EnvChain), TRUE, RecipientAddress, Unit)>>)

PendingWorld ==
    ChainWorld("found", "error", "found", UsdcOf(EnvChain),
               <<TransferLog(UsdcOf(EnvChain), TRUE, RecipientAddress, Unit)>>)

Everywhere(w) == [c \in ChainNames |-> w]

PipelineRpcs == {Everywhere(PaidWorld), Everywhere(PendingWorld)}

PipelineFacAnswers ==
    { FacAnswer("response", HttpOk, "verified_true", "ValueError"),
      FacAnswer("response", HttpOk, "verified_false", "ValueError"),
      FacAnswer("response", 503, "no_field", "ValueError"),
      FacAnswer("timeout", 0, "no_field", "ValueError") }

NoFacAnswer == FacAnswer("none", 0, "no_field", "ValueError")

(* settle: "none" | "sent" | "raised", how release_funds / refund_funds ended *)
Observation(path, read, fac, rpc, settle) ==
    [path |-> path, read |-> read, fac |-> fac, rpc |-> rpc, settle |-> settle]

NoObservation ==
    Observation("none", RpcError, NoFacAnswer, Everywhere(PendingWorld), "none")

(* ------------------------------------------------------------------ *)
(* Init: the service after start-up, no request received               *)
(* ------------------------------------------------------------------ *)
IdleUnit == [op |-> "none"]

PipelineInit ==
    /\ escrowOn \in BOOLEAN
    /\ pc = [r \in Reqs |-> "idle"]
    /\ req = [r \in Reqs |-> NoRequest]
    /\ price = [r \in Reqs |-> NoAmount]
    /\ tradeId = [r \in Reqs |-> 0]
    /\ nonce = [r \in Reqs |-> 0]
    /\ resp = [r \in Reqs |-> NoResponse]
    /\ calls = [r \in Reqs |-> <<>>]
    /\ obs = [r \in Reqs |-> NoObservation]
    /\ escrow \in [EscrowKeys -> Deposits]
    /\ mempool = {}
    /\ txCount = 0
    /\ ledger = <<>>
    /\ orders = 0

Init ==
    /\ PipelineInit
    /\ unitCall = IdleUnit
    /\ unitRet = IdleUnit

(* ------------------------------------------------------------------ *)
(* execute_trade, step by step                                         *)
(* ------------------------------------------------------------------ *)
Called(r, name) == calls' = [calls EXCEPT ![r] = Append(@, name)]

Finish(r, response) ==
    /\ pc' = [pc EXCEPT ![r] = "done"]
    /\ resp' = [resp EXCEPT ![r] = response]

Goto(r, label) ==
    /\ pc' = [pc EXCEPT ![r] = label]
    /\ UNCHANGED resp

BadRequest(error) == Response(400, error, NoAmount, Absent, NoAmount, 0, NoAmount)

(* server.py lines 94-110; NoResponse when the request is accepted *)
Validate(request) ==
    IF ~request.has_body THEN BadRequest("Missing request body")
    ELSE IF request.contract = "" THEN BadRequest("Missing required field: contract")
    ELSE IF request.quantity.t = "null" THEN BadRequest("Missing or invalid field: quantity")
    ELSE IF request.quantity.t = "str" THEN InternalServerError
    ELSE IF request.quantity.v <= 0 THEN BadRequest("Missing or invalid field: quantity")
    ELSE IF request.side \notin {"yes", "no"}
         THEN BadRequest("Invalid side: must be 'yes' or 'no'")
    ELSE NoResponse

RequiredPaymentAdvertised(r) == Unit * req[r].quantity.v

(* required_payment = current_price * quantity *)
RequiredPayment(r) == price[r] * req[r].quantity.v

EscrowPathByShape(r) == IsTradeHash(req[r].proof)

(* escrow_handler and is_trade_hash *)
EscrowPath(r) == escrowOn /\ IsTradeHash(req[r].proof)

Receive(r, request) ==
    /\ pc[r] = "idle"
    /\ req' = [req EXCEPT ![r] = request]
    /\ IF Validate(request) = NoResponse
       THEN Goto(r, "quote")
       ELSE Finish(r, Validate(request))
    /\ UNCHANGED <<escrowOn, price, tradeId, nonce, calls, obs, escrow, mempool,
                   txCount, ledger, orders, unitCall, unitRet>>

PaymentErrorFatal(error, required) ==
    Response(500, error, required, Absent, NoAmount, 0, NoAmount)

PaymentError(error, required) ==
    Response(402, error, required, Absent, NoAmount, 0, NoAmount)

QuoteChallengeFirst(r, quoted) ==
    /\ pc[r] = "quote"
    /\ IF req[r].proof = NoProof
       THEN /\ calls' = [calls EXCEPT ![r] =
                           @ \o <<"get_current_price", "require_payment">>]
            /\ Finish(r, InternalServerError)
            /\ UNCHANGED price
       ELSE /\ Called(r, "get_current_price")
            /\ Goto(r, "verify")
            /\ price' = [price EXCEPT ![r] = quoted]
    /\ UNCHANGED <<escrowOn, req, tradeId, nonce, obs, escrow, mempool, txCount,
                   ledger, orders, unitCall, unitRet>>

(* server.py lines 112-150: the quote, and the 402 challenge when no    *)
(* PAYMENT-SIGNATURE came; quoted = NoAmount is "no price"             *)
Quote(r, quoted) ==
    /\ pc[r] = "quote"
    /\ IF quoted = NoAmount
       THEN /\ Called(r, "get_current_price")
            /\ Finish(r, Response(500, "Failed to get current price", NoAmount,
                                  Absent, NoAmount, 0, NoAmount))
            /\ UNCHANGED price
       ELSE /\ price' = [price EXCEPT ![r] = quoted]
            /\ IF req[r].proof = NoProof
               THEN /\ calls' = [calls EXCEPT ![r] =
                                   @ \o <<"get_current_price", "require_payment">>]
                    /\ Finish(r, require_payment(
                          [amount_usd |-> quoted * req[r].quantity.v,
                           currency |-> "USDC",
                           recipient_address |-> RecipientAddress,
                           memo |-> <<req[r].contract, req[r].side, req[r].quantity.v>>,
                           chain |-> EnvChain,
                           escrow_address |-> escrowOn,
                           trade_hash |-> escrowOn]))
               ELSE /\ Called(r, "get_current_price")
                    /\ Goto(r, "verify")
    /\ UNCHANGED <<escrowOn, req, tradeId, nonce, obs, escrow, mempool, txCount,
                   ledger, orders, unitCall, unitRet>>

(* bytes.fromhex(payment_signature.replace('0x', '')) *)
TradeHashBytes(r) == FromHex(Replace0x(req[r].proof)).bytes

StorageAtClaimed(key) ==
    IF key \in EscrowKeys
       /\ ~\E q \in Reqs :
             /\ pc[q] \in {"execute", "refund", "refund_send", "release",
                            "release_send", "record"}
             /\ FromHex(Replace0x(req[q].proof)).bytes = key
    THEN escrow[key]
    ELSE ZeroTrade

(* getTrade(trade_hash).call() on the contract's storage *)
StorageAt(key) == IF key \in EscrowKeys THEN escrow[key] ELSE ZeroTrade

VerifyEscrowBound(r, readOk) ==
    /\ pc[r] = "verify"
    /\ EscrowPath(r)
    /\ LET required == RequiredPayment(r)
           route == ProofRoute(escrowOn, req[r].proof)
           read == IF readOk THEN Fetched(StorageAt(TradeHashBytes(r))) ELSE RpcError
           vd == verify_deposit(read)
       IN  IF route = "ValueError"
           THEN /\ Finish(r, PaymentError("Escrow verification failed", required))
                /\ UNCHANGED <<calls, obs>>
           ELSE IF route = "invalid_format"
           THEN /\ Finish(r, PaymentError("Invalid trade hash format", required))
                /\ UNCHANGED <<calls, obs>>
           ELSE /\ Called(r, "verify_deposit")
                /\ obs' = [obs EXCEPT ![r] =
                             Observation("escrow", read, NoFacAnswer, @.rpc, "none")]
                /\ IF ~vd.active
                   THEN Finish(r, PaymentError("Escrow deposit not found", required))
                   ELSE IF EscrowAmountMismatch(vd.info.amount, required)
                   THEN Finish(r, PaymentError("Amount mismatch", required))
                   ELSE IF Lower(vd.info.recipient) # Lower(RecipientAddress)
                   THEN Finish(r, PaymentError("Recipient mismatch", required))
                   ELSE IF req[r].agent # "agent-7"
                   THEN Finish(r, PaymentError("Agent mismatch", required))
                   ELSE Goto(r, "execute")
    /\ UNCHANGED <<escrowOn, req, price, tradeId, nonce, escrow, mempool, txCount,
                   ledger, orders, unitCall, unitRet>>

(* server.py lines 159-198: the escrow path *)
VerifyEscrow(r, readOk) ==
    /\ pc[r] = "verify"
    /\ EscrowPath(r)
    /\ LET required == RequiredPayment(r)
           route == ProofRoute(escrowOn, req[r].proof)
           read == IF readOk THEN Fetched(StorageAt(TradeHashBytes(r))) ELSE RpcError
           vd == verify_deposit(read)
       IN  IF route = "ValueError"
           THEN /\ Finish(r, PaymentError("Escrow verification failed", required))
                /\ UNCHANGED <<calls, obs>>
           ELSE IF route = "invalid_format"
           THEN /\ Finish(r, PaymentError("Invalid trade hash format", required))
                /\ UNCHANGED <<calls, obs>>
           ELSE /\ Called(r, "verify_deposit")
                /\ obs' = [obs EXCEPT ![r] =
                             Observation("escrow", read, NoFacAnswer, @.rpc, "none")]
                /\ IF ~vd.active
                   THEN Finish(r, PaymentError("Escrow deposit not found", required))
                   ELSE IF EscrowAmountMismatch(vd.info.amount, required)
                   THEN Finish(r, PaymentError("Amount mismatch", required))
                   ELSE IF Lower(vd.info.recipient) # Lower(RecipientAddress)
                   THEN Finish(r, PaymentError("Recipient mismatch", required))
                   ELSE Goto(r, "execute")
    /\ UNCHANGED <<escrowOn, req, price, tradeId, nonce, escrow, mempool, txCount,
                   ledger, orders, unitCall, unitRet>>

VerifyDirectOnce(r, fac, rpc) ==
    /\ pc[r] = "verify"
    /\ ProofRoute(escrowOn, req[r].proof) = "verify_payment"
    /\ Called(r, "verify_payment")
    /\ obs' = [obs EXCEPT ![r] = Observation("direct", RpcError, fac, rpc, "none")]
    /\ IF /\ verify_payment(req[r].proof, RequiredPayment(r), RecipientAddress,
                            EnvChain, fac, rpc).result
          /\ \A i \in 1..Len(ledger) : ledger[i].payment_tx_hash # req[r].proof
       THEN Goto(r, "execute")
       ELSE Finish(r, PaymentError("Payment verification failed", RequiredPayment(r)))
    /\ UNCHANGED <<escrowOn, req, price, tradeId, nonce, escrow, mempool, txCount,
                   ledger, orders, unitCall, unitRet>>

(* server.py lines 199-207: the facilitator / on-chain path *)
VerifyDirect(r, fac, rpc) ==
    /\ pc[r] = "verify"
    /\ ProofRoute(escrowOn, req[r].proof) = "verify_payment"
    /\ Called(r, "verify_payment")
    /\ obs' = [obs EXCEPT ![r] = Observation("direct", RpcError, fac, rpc, "none")]
    /\ IF verify_payment(req[r].proof, RequiredPayment(r), RecipientAddress,
                         EnvChain, fac, rpc).result
       THEN Goto(r, "execute")
       ELSE Finish(r, PaymentError("Payment verification failed", RequiredPayment(r)))
    /\ UNCHANGED <<escrowOn, req, price, tradeId, nonce, escrow, mempool, txCount,
                   ledger, orders, unitCall, unitRet>>

ExecutionFailedUnconfirmed(refunded) ==
    Response(500, "Trade execution failed", NoAmount, JsonBool(FALSE),
             NoAmount, 0, NoAmount)

ExecutionFailedAlwaysRefunded(refunded) ==
    Response(500, "Trade execution failed", NoAmount, JsonBool(TRUE),
             NoAmount, 0, NoAmount)

ExecutionFailed(refunded) ==
    Response(500, "Trade execution failed", NoAmount, JsonBool(refunded),
             NoAmount, 0, NoAmount)

ExecuteTimeoutCrashes(r, placed) ==
    /\ pc[r] = "execute"
    /\ Called(r, "execute_trade")
    /\ IF placed
       THEN /\ orders' = orders + 1
            /\ tradeId' = [tradeId EXCEPT ![r] = orders + 1]
            /\ Goto(r, IF EscrowPath(r) THEN "release" ELSE "record")
       ELSE /\ UNCHANGED <<orders, tradeId>>
            /\ Finish(r, InternalServerError)
    /\ UNCHANGED <<escrowOn, req, price, nonce, obs, escrow, mempool, txCount,
                   ledger, unitCall, unitRet>>

ExecuteSkipsSettling(r, placed) ==
    /\ pc[r] = "execute"
    /\ Called(r, "execute_trade")
    /\ IF placed
       THEN /\ orders' = orders + 1
            /\ tradeId' = [tradeId EXCEPT ![r] = orders + 1]
            /\ Goto(r, "record")
       ELSE /\ UNCHANGED <<orders, tradeId>>
            /\ IF EscrowPath(r)
               THEN Goto(r, "refund")
               ELSE Finish(r, ExecutionFailed(escrowOn /\ IsTradeHash(req[r].proof)))
    /\ UNCHANGED <<escrowOn, req, price, nonce, obs, escrow, mempool, txCount,
                   ledger, unitCall, unitRet>>

(* server.py lines 209-235 up to the refund call: trade_executor.execute_trade *)
(* returns an order id (placed) or None                                *)
Execute(r, placed) ==
    /\ pc[r] = "execute"
    /\ Called(r, "execute_trade")
    /\ IF placed
       THEN /\ orders' = orders + 1
            /\ tradeId' = [tradeId EXCEPT ![r] = orders + 1]
            /\ Goto(r, IF EscrowPath(r) THEN "release" ELSE "record")
       ELSE /\ UNCHANGED <<orders, tradeId>>
            /\ IF EscrowPath(r)
               THEN Goto(r, "refund")
               ELSE Finish(r, ExecutionFailed(escrowOn /\ IsTradeHash(req[r].proof)))
    /\ UNCHANGED <<escrowOn, req, price, nonce, obs, escrow, mempool, txCount,
                   ledger, unitCall, unitRet>>

SettlementTx(kind, key, n, trade_id) ==
    [kind |-> kind, key |-> key, nonce |-> n, trade_id |-> trade_id]

(* what follows a refund attempt (server.py 221-235) and a release      *)
(* attempt (server.py 240-251): the except clause only logs, so the     *)
(* continuation is the same whether the attempt raised or not           *)
AfterSettlementPropagate(r, kind, raised) ==
    IF raised THEN Finish(r, InternalServerError)
    ELSE IF kind = "refund"
    THEN Finish(r, ExecutionFailed(escrowOn /\ IsTradeHash(req[r].proof)))
    ELSE Goto(r, "record")

AfterSettlement(r, kind, raised) ==
    IF kind = "refund"
    THEN Finish(r, ExecutionFailed(escrowOn /\ IsTradeHash(req[r].proof)))
    ELSE Goto(r, "record")

Settled(r, how) == obs' = [obs EXCEPT ![r].settle = how]

SettleNonceRetried(r, readOk) ==
    /\ pc[r] \in {"refund", "release"}
    /\ Called(r, IF pc[r] = "refund" THEN "refund_funds" ELSE "release_funds")
    /\ IF readOk
       THEN /\ nonce' = [nonce EXCEPT ![r] = txCount]
            /\ Goto(r, IF pc[r] = "refund" THEN "refund_send" ELSE "release_send")
            /\ UNCHANGED obs
       ELSE /\ UNCHANGED nonce
            /\ Settled(r, "raised")
            /\ Goto(r, pc[r])
    /\ UNCHANGED <<escrowOn, req, price, tradeId, escrow, mempool, txCount,
                   ledger, orders, unitCall, unitRet>>

(* escrow_handler.py release_funds / refund_funds, first half:          *)
(* nonce = w3.eth.get_transaction_count(account.address)               *)
SettleNonce(r, readOk) ==
    /\ pc[r] \in {"refund", "release"}
    /\ Called(r, IF pc[r] = "refund" THEN "refund_funds" ELSE "release_funds")
    /\ IF readOk
       THEN /\ nonce' = [nonce EXCEPT ![r] = txCount]
            /\ Goto(r, IF pc[r] = "refund" THEN "refund_send" ELSE "release_send")
            /\ UNCHANGED obs
       ELSE /\ UNCHANGED nonce
            /\ Settled(r, "raised")
            /\ AfterSettlement(r, pc[r], TRUE)
    /\ UNCHANGED <<escrowOn, req, price, tradeId, escrow, mempool, txCount,
                   ledger, orders, unitCall, unitRet>>

(* second half: build_transaction, sign, send_raw_transaction; a        *)
(* rejected submission raises and the caller in server.py logs it      *)
SettleSend(r, sendOk) ==
    /\ pc[r] \in {"refund_send", "release_send"}
    /\ LET kind == IF pc[r] = "refund_send" THEN "refund" ELSE "release"
       IN  /\ IF sendOk
              THEN mempool' = mempool \cup
                      {SettlementTx(kind, TradeHashBytes(r), nonce[r], tradeId[r])}
              ELSE UNCHANGED mempool
           /\ Settled(r, IF sendOk THEN "sent" ELSE "raised")
           /\ AfterSettlement(r, kind, ~sendOk)
    /\ UNCHANGED <<escrowOn, req, price, tradeId, nonce, calls, escrow,
                   txCount, ledger, orders, unitCall, unitRet>>

TradeRecordStripped(r) ==
    [agent_id |-> req[r].agent,
     contract_ticker |-> req[r].contract,
     quantity |-> req[r].quantity.v,
     side |-> req[r].side,
     trade_id |-> tradeId[r],
     price |-> price[r],
     total_cost |-> price[r] * req[r].quantity.v,
     payment_tx_hash |-> Replace0x(req[r].proof)]

(* ledger.py record_trade: the row inserted *)
TradeRecord(r) ==
    [agent_id |-> req[r].agent,
     contract_ticker |-> req[r].contract,
     quantity |-> req[r].quantity.v,
     side |-> req[r].side,
     trade_id |-> tradeId[r],
     price |-> price[r],
     total_cost |-> price[r] * req[r].quantity.v,
     payment_tx_hash |-> req[r].proof]

Success(r) ==
    Response(200, "success", NoAmount, Absent, NoAmount, tradeId[r], RequiredPayment(r))

RecordSwallowed(r, inserted) ==
    /\ pc[r] = "record"
    /\ Called(r, "record_trade")
    /\ IF inserted THEN ledger' = Append(ledger, TradeRecord(r)) ELSE UNCHANGED ledger
    /\ Finish(r, Success(r))
    /\ UNCHANGED <<escrowOn, req, price, tradeId, nonce, obs, escrow, mempool,
                   txCount, orders, unitCall, unitRet>>

(* server.py lines 251-272: record_trade raises when the insert fails,  *)
(* and nothing in execute_trade catches it                             *)
Record(r, inserted) ==
    /\ pc[r] = "record"
    /\ Called(r, "record_trade")
    /\ IF inserted
       THEN /\ ledger' = Append(ledger, TradeRecord(r))
            /\ Finish(r, Success(r))
       ELSE /\ UNCHANGED ledger
            /\ Finish(r, InternalServerError)
    /\ UNCHANGED <<escrowOn, req, price, tradeId, nonce, obs, escrow, mempool,
                   txCount, orders, unitCall, unitRet>>

(* the response has been sent; the request's locals are gone *)
Close(r) ==
    /\ pc[r] = "done"
    /\ pc' = [pc EXCEPT ![r] = "closed"]
    /\ req' = [req EXCEPT ![r] = NoRequest]
    /\ price' = [price EXCEPT ![r] = NoAmount]
    /\ tradeId' = [tradeId EXCEPT ![r] = 0]
    /\ nonce' = [nonce EXCEPT ![r] = 0]
    /\ resp' = [resp EXCEPT ![r] = NoResponse]
    /\ calls' = [calls EXCEPT ![r] = <<>>]
    /\ obs' = [obs EXCEPT ![r] = NoObservation]
    /\ UNCHANGED <<escrowOn, escrow, mempool, txCount, ledger, orders,
                   unitCall, unitRet>>

MineUnguarded(tx, reverts) ==
    /\ tx \in mempool
    /\ tx.nonce = txCount
    /\ txCount' = txCount + 1
    /\ mempool' = {t \in mempool : t.nonce > tx.nonce}
    /\ IF ~reverts /\ tx.key \in EscrowKeys
       THEN escrow' = [escrow EXCEPT ![tx.key] =
                          IF tx.kind = "release"
                          THEN [@ EXCEPT !.released = TRUE, !.kalshiTradeId = tx.trade_id]
                          ELSE [@ EXCEPT !.refunded = TRUE]]
       ELSE UNCHANGED escrow
    /\ UNCHANGED <<escrowOn, pc, req, price, tradeId, nonce, resp, calls, obs,
                   ledger, orders, unitCall, unitRet>>

(* the chain mines one submitted settlement transaction: the escrow     *)
(* contract applies release/refund to an active record and reverts      *)
(* otherwise; a mined transaction uses up its nonce either way          *)
Mine(tx, reverts) ==
    /\ tx \in mempool
    /\ tx.nonce = txCount
    /\ txCount' = txCount + 1
    /\ mempool' = {t \in mempool : t.nonce > tx.nonce}
    /\ IF ~reverts /\ tx.key \in EscrowKeys /\ IsActive(escrow[tx.key])
       THEN escrow' = [escrow EXCEPT ![tx.key] =
                          IF tx.kind = "release"
                          THEN [@ EXCEPT !.released = TRUE, !.kalshiTradeId = tx.trade_id]
                          ELSE [@ EXCEPT !.refunded = TRUE]]
       ELSE UNCHANGED escrow
    /\ UNCHANGED <<escrowOn, pc, req, price, tradeId, nonce, resp, calls, obs,
                   ledger, orders, unitCall, unitRet>>

(* requests are served one after the other *)
InTurn(r) == \A q \in Reqs : q < r => pc[q] = "closed"

Quotes == {NoAmount, Unit}

Next ==
    \/ \E r \in Reqs, request \in Requests : InTurn(r) /\ Receive(r, request)
    \/ \E r \in Reqs, quoted \in Quotes : Quote(r, quoted)
    \/ \E r \in Reqs, readOk \in BOOLEAN : VerifyEscrow(r, readOk)
    \/ \E r \in Reqs, fac \in PipelineFacAnswers, rpc \in PipelineRpcs :
          VerifyDirect(r, fac, rpc)
    \/ \E r \in Reqs, placed \in BOOLEAN : Execute(r, placed)
    \/ \E r \in Reqs, readOk \in BOOLEAN : SettleNonce(r, readOk)
    \/ \E r \in Reqs, sendOk \in BOOLEAN : SettleSend(r, sendOk)
    \/ \E r \in Reqs, inserted \in BOOLEAN : Record(r, inserted)
    \/ \E r \in Reqs : Close(r)
    \/ \E tx \in mempool, reverts \in BOOLEAN : Mine(tx, reverts)

Spec == Init /\ [][Next]_vars

(* ------------------------------------------------------------------ *)
(* Progress: every call execute_trade makes is blocking and returns or  *)
(* times out, so a request that has been received keeps taking steps     *)
(* ------------------------------------------------------------------ *)
RequestStep(r) ==
    \/ \E quoted \in Quotes : Quote(r, quoted)
    \/ \E readOk \in BOOLEAN : VerifyEscrow(r, readOk)
    \/ \E fac \in PipelineFacAnswers, rpc \in PipelineRpcs : VerifyDirect(r, fac, rpc)
    \/ \E placed \in BOOLEAN : Execute(r, placed)
    \/ \E readOk \in BOOLEAN : SettleNonce(r, readOk)
    \/ \E sendOk \in BOOLEAN : SettleSend(r, sendOk)
    \/ \E inserted \in BOOLEAN : Record(r, inserted)

SpecLive == Init /\ [][Next]_vars /\ \A r \in Reqs : WF_vars(RequestStep(r))

(* ------------------------------------------------------------------ *)
(* A client that comes back: a request without a proof, then requests    *)
(* with a proof, served one after the other while the quote moves        *)
(* ------------------------------------------------------------------ *)
MovedUnit == CentsToUsd(QuoteCents + 2)

RetryQuotes == {Unit, MovedUnit}

RetryRequests ==
    { Request(TRUE, "ABC-1", JsonInt(1), "yes", "agent-7", NoProof),
      Request(TRUE, "ABC-1", JsonInt(1), "yes", "agent-7", HashA),
      Request(TRUE, "XYZ-2", JsonInt(1), "no", "agent-9", HashA) }

(* the requests before r have been answered *)
Answered(r) == \A q \in Reqs : q < r => pc[q] \in {"done", "closed"}

RetryNext ==
    \/ \E r \in Reqs, request \in RetryRequests : Answered(r) /\ Receive(r, request)
    \/ \E r \in Reqs, quoted \in RetryQuotes : Quote(r, quoted)
    \/ \E r \in Reqs, readOk \in BOOLEAN : VerifyEscrow(r, readOk)
    \/ \E r \in Reqs, placed \in BOOLEAN : Execute(r, placed)
    \/ \E r \in Reqs, readOk \in BOOLEAN : SettleNonce(r, readOk)
    \/ \E r \in Reqs, sendOk \in BOOLEAN : SettleSend(r, sendOk)
    \/ \E r \in Reqs, inserted \in BOOLEAN : Record(r, inserted)
    \/ \E r \in Reqs : Close(r)
    \/ \E tx \in mempool, reverts \in BOOLEAN : Mine(tx, reverts)

RetryDeposits == { Trade(AgentAddress, RecipientAddress, Unit, FALSE, FALSE) }

(* escrow is configured and the trade hash holds one deposit of Unit *)
RetryInit ==
    /\ Init
    /\ escrowOn
    /\ escrow \in [EscrowKeys -> RetryDeposits]

SpecRetry == RetryInit /\ [][RetryNext]_vars

(* ------------------------------------------------------------------ *)
(* Requests served concurrently (app.run serves each request in its own *)
(* thread): the steps of the requests interleave freely. The requests   *)
(* all present the same escrow trade hash against a funded deposit.     *)
(* ------------------------------------------------------------------ *)
ConcRequests == { Request(TRUE, "ABC-1", JsonInt(1), "yes", "agent-7", HashA) }

ConcDeposits == { Trade(AgentAddress, RecipientAddress, Unit, FALSE, FALSE) }

ConcInit ==
    /\ Init
    /\ escrowOn
    /\ escrow \in [EscrowKeys -> ConcDeposits]

ConcNext ==
    \/ \E r \in Reqs, request \in ConcRequests : Receive(r, request)
    \/ \E r \in Reqs : Quote(r, Unit)
    \/ \E r \in Reqs, readOk \in BOOLEAN : VerifyEscrow(r, readOk)
    \/ \E r \in Reqs, placed \in BOOLEAN : Execute(r, placed)
    \/ \E r \in Reqs, readOk \in BOOLEAN : SettleNonce(r, readOk)
    \/ \E r \in Reqs, sendOk \in BOOLEAN : SettleSend(r, sendOk)
    \/ \E r \in Reqs, inserted \in BOOLEAN : Record(r, inserted)
    \/ \E r \in Reqs : Close(r)
    \/ \E tx \in mempool, reverts \in BOOLEAN : Mine(tx, reverts)

SpecConc == ConcInit /\ [][ConcNext]_vars

(* ------------------------------------------------------------------ *)
(* Direct calls of single operations, on inputs drawn from bounded sets *)
(* ------------------------------------------------------------------ *)
MaxAffix == 2
MaxSlack == 12

AffixChars == {"0", "x", " "}

RECURSIVE StringsUpTo(_)
StringsUpTo(n) ==
    IF n = 0 THEN {<<>>}
    ELSE LET shorter == StringsUpTo(n - 1)
         IN  shorter \cup {<<c>> \o t : c \in AffixChars, t \in {u \in shorter : Len(u) = n - 1}}

Affixes == StringsUpTo(MaxAffix)

(* proofs around the 64-character shape: a run of the hex digit "a"      *)
(* between two short strings of "0", "x" and blanks                      *)
RouteProofs ==
    { pre \o Fill("a", k) \o suf :
        pre \in Affixes, suf \in Affixes,
        k \in (HashChars - 2 * MaxAffix)..(HashChars + 1) }

RouteCalls ==
    { [op |-> "route", escrow_on |-> e, proof |-> p] :
        e \in BOOLEAN, p \in RouteProofs }

DepositReads ==
    {RpcError} \cup
    { Fetched([Trade(a, rc, m, rl, rf) EXCEPT !.kalshiTradeId = t, !.deadline = d]) :
        a \in {ZeroAddress, AgentAddress},
        rc \in {ZeroAddress, RecipientAddress, OtherAddress},
        m \in {0, Unit},
        t \in {0, 1}, d \in {0, 1},
        rl \in BOOLEAN, rf \in BOOLEAN }

DepositCalls == { [op |-> "verify_deposit", read |-> rd] : rd \in DepositReads }

AmountOffsets ==
    {0} \cup { sign * (Tolerance + d) : sign \in {0 - 1, 1}, d \in (0 - MaxSlack)..MaxSlack }

AmountCalls ==
    { [op |-> "amount", recorded |-> q * Unit + off, required |-> q * Unit] :
        q \in 1..MaxQty, off \in AmountOffsets }

(* receipt.logs of a transaction: every sequence of at most MaxLogs of  *)
(* these entries                                                        *)
LogKinds ==
    { TransferLog(OtherAddress, TRUE, RecipientAddress, Unit),
      TransferLog(UsdcOf(EnvChain), FALSE, RecipientAddress, Unit),
      TransferLog(UsdcOf(EnvChain), TRUE, OtherAddress, Unit),
      TransferLog(Lower(UsdcOf(EnvChain)), TRUE, Lower(RecipientAddress), Unit),
      TransferLog(UsdcOf(EnvChain), TRUE, RecipientAddress, Unit + Tolerance - 1),
      TransferLog(UsdcOf(EnvChain), TRUE, RecipientAddress, Unit + Tolerance),
      TransferLog(UsdcOf(EnvChain), TRUE, RecipientAddress, Unit - Tolerance) }

RECURSIVE LogsUpTo(_)
LogsUpTo(n) ==
    IF n = 0 THEN {<<>>}
    ELSE LET shorter == LogsUpTo(n - 1)
         IN  shorter \cup {Append(t, l) : l \in LogKinds, t \in {u \in shorter : Len(u) = n - 1}}

PaidLogs == <<TransferLog(UsdcOf(EnvChain), TRUE, RecipientAddress, Unit)>>

(* nodes that stop the verification before the logs, though the logs    *)
(* hold a matching transfer; and mined, successful transactions with    *)
(* every log list                                                       *)
OnChainWorlds ==
    { ChainWorld(tx, rcpt, rf, to, PaidLogs) :
        tx \in {"found", "missing"},
        rcpt \in {"error", "none", "failed", "ok"},
        rf \in {"found", "missing"},
        to \in {UsdcOf(EnvChain), Lower(UsdcOf(EnvChain)), OtherAddress, NoAddress} }
    \cup
    { ChainWorld("found", "ok", "found", UsdcOf(EnvChain), logs) :
        logs \in LogsUpTo(MaxLogs) }

OnChainCalls ==
    { [op |-> "verify_on_chain", tx_hash |-> h, expected_amount |-> Unit,
       recipient_address |-> RecipientAddress, chain |-> c, rpc |-> Everywhere(w)] :
        h \in {HashA, TxRef}, c \in {None, EnvChain}, w \in OnChainWorlds }

FacAnswers ==
    { FacAnswer("response", st, b, je) :
        st \in {HttpOk, 402, 503},
        b \in {"verified_true", "verified_false", "no_field", "not_json"},
        je \in {"RequestException", "ValueError"} }
    \cup { FacAnswer(k, 0, "no_field", "ValueError") : k \in {"timeout", "connection_error"} }

PaymentCalls ==
    { [op |-> "verify_payment", payment_proof |-> h, expected_amount |-> q * Unit,
       recipient_address |-> RecipientAddress, chain |-> EnvChain,
       fac |-> f, rpc |-> rpc] :
        h \in {HashA, TxRef}, q \in 1..MaxQty, f \in FacAnswers, rpc \in PipelineRpcs }

(* a transfer of the expected amount to the recipient, mined on chain c *)
PaidOn(c) ==
    ChainWorld("found", "ok", "found", UsdcOf(c),
               <<TransferLog(UsdcOf(c), TRUE, RecipientAddress, Unit)>>)

(* a node that does not know the transaction, and one that cannot be     *)
(* reached: get_transaction raises in both cases                          *)
AbsentOn(c, how) == [PaidOn(c) EXCEPT !.tx = how]

ProbeAnswers == {"found", "missing", "error"}

DetectWorlds ==
    { [c \in ChainNames |-> IF known[c] = "found" THEN PaidOn(c)
                                                  ELSE AbsentOn(c, known[c])] :
        known \in [ChainNames -> ProbeAnswers] }

UnknownChain == "arbitrum"

DetectCalls ==
    { [op |-> "detect_chain", tx_hash |-> HashA, expected_amount |-> Unit,
       recipient_address |-> RecipientAddress, chain |-> c, rpc |-> w] :
        c \in {None, UnknownChain} \cup ChainNames, w \in DetectWorlds }

UnitCalls ==
    RouteCalls \cup DepositCalls \cup AmountCalls \cup OnChainCalls \cup PaymentCalls
    \cup DetectCalls

UnitInit ==
    /\ PipelineInit
    /\ escrowOn = FALSE
    /\ escrow = [k \in EscrowKeys |-> ZeroTrade]
    /\ unitCall \in UnitCalls
    /\ unitRet = IdleUnit

Returns(op, value) ==
    /\ unitCall.op = op
    /\ unitRet = IdleUnit
    /\ unitRet' = [op |-> op, value |-> value]
    /\ UNCHANGED <<unitCall, pipelineVars>>

CallRoute == Returns("route", ProofRoute(unitCall.escrow_on, unitCall.proof))

CallVerifyDeposit == Returns("verify_deposit", verify_deposit(unitCall.read))

CallAmount ==
    Returns("amount",
            [escrow_accepts |-> ~EscrowAmountMismatch(unitCall.recorded, unitCall.required),
             transfer_accepts |-> TransferAmountMatches(unitCall.recorded, unitCall.required)])

CallVerifyOnChain ==
    Returns("verify_on_chain",
            verify_on_chain(unitCall.tx_hash, unitCall.expected_amount,
                            unitCall.recipient_address, unitCall.chain, unitCall.rpc))

CallVerifyPayment ==
    Returns("verify_payment",
            verify_payment(unitCall.payment_proof, unitCall.expected_amount,
                           unitCall.recipient_address, unitCall.chain,
                           unitCall.fac, unitCall.rpc))

CallDetectChain ==
    Returns("detect_chain",
            verify_on_chain(unitCall.tx_hash, unitCall.expected_amount,
                            unitCall.recipient_address, unitCall.chain, unitCall.rpc))

UnitNext ==
    \/ CallDetectChain
    \/ CallRoute
    \/ CallVerifyDeposit
    \/ CallAmount
    \/ CallVerifyOnChain
    \/ CallVerifyPayment

SpecUnit == UnitInit /\ [][UnitNext]_vars

(* ================================================================== *)
(* Properties                                                          *)
(* ================================================================== *)
Has(r, name) == \E i \in 1..Len(calls[r]) : calls[r][i] = name

Count(r, name) == Cardinality({i \in 1..Len(calls[r]) : calls[r][i] = name})

WellFormed(request) ==
    /\ request.has_body
    /\ request.contract # ""
    /\ request.quantity.t = "int" /\ request.quantity.v > 0
    /\ request.side \in {"yes", "no"}

SideEffectCalls == {"execute_trade", "release_funds", "refund_funds", "record_trade"}

NoSideEffects(r) == \A name \in SideEffectCalls : ~Has(r, name)

LedgerHas(trade_id) == \E i \in 1..Len(ledger) : ledger[i].trade_id = trade_id

AllHex(s) == \A i \in 1..Len(s) : s[i] \in HexDigits

(* C1: every valid request without PAYMENT-SIGNATURE for which a price   *)
(* was quoted is answered 402 with PAYMENT-REQUIRED amount = quoted      *)
(* price x quantity, and only the quote and the challenge were called.   *)
C1_ChallengeIs402 ==
    \A r \in Reqs :
        (/\ pc[r] = "done"
         /\ WellFormed(req[r])
         /\ req[r].proof = NoProof
         /\ price[r] # NoAmount)
        => /\ resp[r].status = 402
           /\ resp[r].header_amount = price[r] * req[r].quantity.v
           /\ NoSideEffects(r)
           /\ ~Has(r, "verify_deposit") /\ ~Has(r, "verify_payment")

(* the ways a verification can fail, read off what the request was told *)
DepositUnusable(r) ==
    /\ obs[r].path = "escrow"
    /\ \/ ~obs[r].read.ok
       \/ obs[r].read.trade.agent = ZeroAddress
       \/ obs[r].read.trade.released
       \/ obs[r].read.trade.refunded

AmountOff(r) ==
    /\ obs[r].path = "escrow"
    /\ obs[r].read.ok
    /\ Abs(obs[r].read.trade.amount - price[r] * req[r].quantity.v) > Tolerance

RecipientOff(r) ==
    /\ obs[r].path = "escrow"
    /\ obs[r].read.ok
    /\ obs[r].read.trade.recipient.id # RecipientAddress.id

MalformedHash(r) ==
    /\ escrowOn
    /\ Len(Replace0x(req[r].proof)) = HashChars
    /\ ~AllHex(Replace0x(req[r].proof))

DirectRejected(r) ==
    /\ obs[r].path = "direct"
    /\ ~verify_payment(req[r].proof, price[r] * req[r].quantity.v, RecipientAddress,
                       EnvChain, obs[r].fac, obs[r].rpc).result

VerificationFailed(r) ==
    DepositUnusable(r) \/ AmountOff(r) \/ RecipientOff(r) \/ MalformedHash(r)
    \/ DirectRejected(r)

PastVerification(r) ==
    /\ pc[r] \in {"execute", "refund", "refund_send", "release", "release_send",
                  "record", "done"}
    /\ price[r] # NoAmount
    /\ req[r].proof # NoProof

(* C2: a request whose payment verification does not succeed ends with  *)
(* 402, an error and required_amount = quoted price x quantity, and in   *)
(* it no trade is submitted, no release or refund is called and no       *)
(* ledger entry is written.                                              *)
C2_FailedVerificationIs402 ==
    \A r \in Reqs :
        (PastVerification(r) /\ VerificationFailed(r))
        => /\ pc[r] = "done"
           /\ resp[r].status = 402
           /\ resp[r].error # None
           /\ resp[r].required_amount = price[r] * req[r].quantity.v
           /\ NoSideEffects(r)

C2_Witness ==
    \E r \in Reqs :
        /\ pc[r] = "done"
        /\ AmountOff(r) /\ ~DepositUnusable(r) /\ ~RecipientOff(r)
        /\ resp[r].status = 402

HashShape(p) ==
    \/ Len(p) = HashChars /\ AllHex(p)
    \/ /\ Len(p) = HashChars + 2
       /\ p[1] = "0" /\ p[2] = "x"
       /\ AllHex(SubSeq(p, 3, Len(p)))

(* C3: with escrow configured a proof goes to verify_deposit exactly    *)
(* when it is 64 hex characters, optionally after one "0x", and every    *)
(* other proof goes to verify_payment.                                   *)
C3_RoutedByShape ==
    (unitRet.op = "route" /\ unitCall.escrow_on)
    => /\ (unitRet.value = "verify_deposit") <=> HashShape(unitCall.proof)
       /\ ~HashShape(unitCall.proof) => unitRet.value = "verify_payment"

TradeFailedAfterEscrow(r) ==
    /\ pc[r] = "done"
    /\ obs[r].path = "escrow"
    /\ Has(r, "execute_trade")
    /\ tradeId[r] = 0

(* C4: when the trade fails after the escrow deposit was verified, the   *)
(* request calls refund_funds exactly once, never release_funds, writes  *)
(* no ledger entry and answers 500 with refunded = true, however the     *)
(* refund call ended.                                                    *)
C4_FailedTradeRefundsOnce ==
    \A r \in Reqs :
        TradeFailedAfterEscrow(r)
        => /\ Count(r, "refund_funds") = 1
           /\ ~Has(r, "release_funds")
           /\ ~Has(r, "record_trade")
           /\ resp[r].status = 500
           /\ resp[r].refunded = "true"
           /\ obs[r].settle \in {"sent", "raised"}

C4_Witness ==
    \E r \in Reqs :
        /\ TradeFailedAfterEscrow(r)
        /\ obs[r].settle = "raised"
        /\ resp[r].refunded = "true"

ReleaseRaised(r) ==
    /\ pc[r] = "done"
    /\ obs[r].path = "escrow"
    /\ tradeId[r] # 0
    /\ obs[r].settle = "raised"

(* C5: when the trade succeeded on the escrow path and release_funds     *)
(* raised, the request does not refund, still writes the ledger entry    *)
(* and, that write succeeding, answers 200 success; the request has put  *)
(* no settlement transaction on the chain, so the record stays as it     *)
(* was: active when nothing else settled it.                             *)
C5_ReleaseFailureKeepsSuccess ==
    \A r \in Reqs :
        ReleaseRaised(r)
        => /\ ~Has(r, "refund_funds")
           /\ Count(r, "release_funds") = 1
           /\ Count(r, "record_trade") = 1
           /\ LedgerHas(tradeId[r]) => (resp[r].status = 200 /\ resp[r].error = "success")
           /\ LedgerHas(tradeId[r]) \/ resp[r] = InternalServerError
           /\ \A tx \in mempool : tx.trade_id # tradeId[r]
           /\ escrow[TradeHashBytes(r)].kalshiTradeId # tradeId[r]
           /\ (txCount = 0 /\ mempool = {}) => IsActive(escrow[TradeHashBytes(r)])

C5_Witness ==
    \E r \in Reqs :
        /\ ReleaseRaised(r)
        /\ resp[r].status = 200
        /\ IsActive(escrow[TradeHashBytes(r)])

LedgerWriteFailed(r) ==
    /\ pc[r] = "done"
    /\ Has(r, "record_trade")
    /\ ~LedgerHas(tradeId[r])

(* C6: when record_trade fails after the trade was executed, the request *)
(* ends with an error response, and nothing is undone: record_trade is   *)
(* the last call, no refund is made, the order stands and a release that *)
(* was sent stays sent.                                                  *)
C6_LedgerFailureIsError ==
    \A r \in Reqs :
        LedgerWriteFailed(r)
        => /\ resp[r].status = 500
           /\ resp[r].error # "success"
           /\ calls[r][Len(calls[r])] = "record_trade"
           /\ ~Has(r, "refund_funds")
           /\ tradeId[r] # 0 /\ orders >= tradeId[r]
           /\ obs[r].settle = "sent"
              => \/ \E tx \in mempool : tx.trade_id = tradeId[r] /\ tx.kind = "release"
                 \/ txCount > nonce[r]

C6_Witness ==
    \E r \in Reqs :
        /\ LedgerWriteFailed(r)
        /\ obs[r].path = "escrow"
        /\ obs[r].settle = "sent"
        /\ resp[r].status = 500

(* C7: verify_deposit's first component is (agent non-zero) and not      *)
(* released and not refunded, of the record read; it is false for every  *)
(* released or refunded record and when the read fails.                  *)
C7_ActiveIffLiveRecord ==
    unitRet.op = "verify_deposit"
    => LET read == unitCall.read
       IN  /\ read.ok =>
                /\ unitRet.value.active =
                     (/\ read.trade.agent # ZeroAddress
                      /\ ~read.trade.released
                      /\ ~read.trade.refunded)
                /\ (read.trade.released \/ read.trade.refunded)
                     => ~unitRet.value.active
           /\ ~read.ok => (~unitRet.value.active /\ unitRet.value.info = EmptyInfo)

C7_Witness ==
    /\ unitRet.op = "verify_deposit"
    /\ unitCall.read.ok
    /\ unitCall.read.trade.agent # ZeroAddress
    /\ unitCall.read.trade.released
    /\ ~unitRet.value.active

AmountGap == Abs(unitCall.recorded - unitCall.required)

NodeAnswer == unitCall.rpc[EnvChain]

FailsEarly ==
    \/ NodeAnswer.tx = "missing"
    \/ NodeAnswer.receipt \in {"error", "none", "failed"}

(* C9: _verify_on_chain returns false, without raising and without       *)
(* looking at a log, when the transaction is not found, the receipt      *)
(* cannot be fetched, is None, or has a status other than 1.             *)
C9_FailsClosedBeforeLogs ==
    (unitRet.op = "verify_on_chain" /\ FailsEarly)
    => /\ ~unitRet.value.result
       /\ ~unitRet.value.raised
       /\ unitRet.value.scanned = 0

C9_Witness ==
    /\ unitRet.op = "verify_on_chain"
    /\ IsTxHash(Ensure0x(unitCall.tx_hash))
    /\ NodeAnswer.tx = "found"
    /\ NodeAnswer.receipt = "failed"
    /\ NodeAnswer.to = UsdcOf(EnvChain)
    /\ NodeAnswer.logs = PaidLogs
    /\ ~unitRet.value.result

FacilitatorAnswered ==
    /\ unitCall.fac.kind = "response"
    /\ unitCall.fac.status = HttpOk
    /\ unitCall.fac.body # "not_json"

FacilitatorOut ==
    \/ unitCall.fac.kind # "response"
    \/ unitCall.fac.status # HttpOk

StageOf(name) ==
    CASE name = "get_current_price" -> 1
      [] name = "require_payment" -> 2
      [] name \in {"verify_deposit", "verify_payment"} -> 3
      [] name = "execute_trade" -> 4
      [] name \in {"release_funds", "refund_funds"} -> 5
      [] name = "record_trade" -> 6

LastCall(r) == calls[r][Len(calls[r])]

(* each call is made at a later stage than the one before it *)
StagesAscend(r) ==
    \A i \in 1..(Len(calls[r]) - 1) : StageOf(calls[r][i]) < StageOf(calls[r][i + 1])

(* each call follows the call of the stage just before it: the quote is  *)
(* first, a stage without a call of its own (no challenge when a proof   *)
(* came, no release on the non-escrow path) is passed through            *)
StagesAdjacent(r) ==
    /\ Len(calls[r]) > 0 => calls[r][1] = "get_current_price"
    /\ \A i \in 2..Len(calls[r]) :
         LET this == calls[r][i]
             prev == calls[r][i - 1]
         IN  /\ this \in {"require_payment", "verify_deposit", "verify_payment"}
                  => prev = "get_current_price"
             /\ this = "execute_trade" => prev \in {"verify_deposit", "verify_payment"}
             /\ this \in {"release_funds", "refund_funds"} => prev = "execute_trade"
             /\ this = "record_trade"
                  => \/ prev = "release_funds"
                     \/ prev = "execute_trade" /\ ~(escrowOn /\ IsTradeHash(req[r].proof))

(* the failures that end a request where they happen *)
FailureEndsRequest(r) ==
    /\ (Has(r, "get_current_price") /\ price[r] = NoAmount)
         => (pc[r] = "done" /\ calls[r] = <<"get_current_price">>)
    /\ Has(r, "require_payment") => (pc[r] = "done" /\ LastCall(r) = "require_payment")
    /\ (pc[r] = "done" /\ resp[r].status = 402)
         => (Len(calls[r]) > 0 /\ StageOf(LastCall(r)) <= 3)
    /\ (Has(r, "execute_trade") /\ tradeId[r] = 0)
         => (~Has(r, "release_funds") /\ ~Has(r, "record_trade"))
    /\ (Has(r, "refund_funds") /\ pc[r] = "done") => LastCall(r) = "refund_funds"
    /\ Has(r, "record_trade") => (pc[r] = "done" /\ LastCall(r) = "record_trade")

SettlementRaised(r) == pc[r] = "done" /\ obs[r].settle = "raised"

(* C11 as claimed: the calls of a request follow the stage order,        *)
(* skipping none and returning to none, and a failure at any stage, a    *)
(* failed escrow release included, ends the request at that stage.       *)
C11_StagesInOrderAllFailuresEnd ==
    \A r \in Reqs :
        /\ StagesAscend(r)
        /\ StagesAdjacent(r)
        /\ FailureEndsRequest(r)
        /\ SettlementRaised(r) => LastCall(r) \in {"release_funds", "refund_funds"}

(* C11 amended: the calls of a request follow the stage order, skipping  *)
(* none and returning to none; a failed quote, challenge, verification,  *)
(* trade or ledger write ends the request at that stage, while a failed  *)
(* release does not: the request goes on to the ledger write.            *)
C11_StagesInOrder ==
    \A r \in Reqs :
        /\ StagesAscend(r)
        /\ StagesAdjacent(r)
        /\ FailureEndsRequest(r)
        /\ (SettlementRaised(r) /\ Has(r, "release_funds"))
             => LastCall(r) = "record_trade"

C11_Witness ==
    \E r \in Reqs :
        /\ pc[r] = "done"
        /\ obs[r].settle = "raised"
        /\ calls[r] = <<"get_current_price", "verify_deposit", "execute_trade",
                        "release_funds", "record_trade">>

(* ------------------------------------------------------------------ *)
(* Requests sharing one escrow deposit                                  *)
(* ------------------------------------------------------------------ *)
ReadMatches(r) ==
    /\ obs[r].read.ok
    /\ obs[r].read.trade.agent # ZeroAddress
    /\ ~obs[r].read.trade.released
    /\ ~obs[r].read.trade.refunded
    /\ Abs(obs[r].read.trade.amount - price[r] * req[r].quantity.v) <= Tolerance
    /\ obs[r].read.trade.recipient.id = RecipientAddress.id

(* C12: nothing claims the trade hash: as long as no settlement has been *)
(* mined, every request that read the record of its trade hash saw the   *)
(* contract's record as it stands, whatever the other requests holding   *)
(* the same hash have done, and a record that is active and matches is   *)
(* never refused.                                                        *)
C12_NoClaimOnTradeHash ==
    \A r \in Reqs :
        (obs[r].path = "escrow" /\ obs[r].read.ok /\ txCount = 0)
        => /\ obs[r].read.trade = escrow[TradeHashBytes(r)]
           /\ ReadMatches(r) => ~(pc[r] = "done" /\ resp[r].status = 402)

(* two requests with the same trade hash both saw the deposit active and *)
(* both hold an order of the exchange, and neither has called release    *)
C12_Witness ==
    \E r \in Reqs, q \in Reqs :
        /\ r # q
        /\ req[r].proof = req[q].proof
        /\ ReadMatches(r) /\ ReadMatches(q)
        /\ tradeId[r] # 0 /\ tradeId[q] # 0 /\ tradeId[r] # tradeId[q]
        /\ ~Has(r, "release_funds") /\ ~Has(q, "release_funds")
        /\ IsActive(escrow[TradeHashBytes(r)])
        /\ orders >= 2

Sending(r) == pc[r] \in {"refund_send", "release_send"}

(* C13: no two settlement transactions of the service account are built *)
(* or submitted with the same nonce.                                     *)
C13_NoncesSerialized ==
    /\ \A r \in Reqs, q \in Reqs :
         (r # q /\ Sending(r) /\ Sending(q)) => nonce[r] # nonce[q]
    /\ \A t1 \in mempool, t2 \in mempool : t1 # t2 => t1.nonce # t2.nonce

(* C14: a well-formed request for which no price is quoted is answered   *)
(* 500 "Failed to get current price" whatever its PAYMENT-SIGNATURE, and *)
(* the price lookup is the only call it makes.                           *)
C14_NoQuoteIs500 ==
    \A r \in Reqs :
        (pc[r] = "done" /\ WellFormed(req[r]) /\ price[r] = NoAmount)
        => /\ resp[r] = Response(500, "Failed to get current price", NoAmount,
                                 Absent, NoAmount, 0, NoAmount)
           /\ calls[r] = <<"get_current_price">>
           /\ obs[r] = NoObservation

C14_Witness ==
    \E r \in Reqs :
        /\ pc[r] = "done"
        /\ WellFormed(req[r])
        /\ req[r].proof = HashA
        /\ price[r] = NoAmount
        /\ resp[r].status = 500
        /\ ledger = <<>> /\ orders = 0 /\ mempool = {}

(* C15: every malformed request is answered 400 and makes no call.       *)
C15_MalformedIs400 ==
    \A r \in Reqs :
        (pc[r] = "done" /\ ~WellFormed(req[r]))
        => (resp[r].status = 400 /\ calls[r] = <<>>)

StepCalls ==
    {"get_current_price", "require_payment", "verify_deposit", "verify_payment",
     "execute_trade", "release_funds", "refund_funds", "record_trade"}

(* C16: within one request each collaborator is called at most once,     *)
(* whatever the calls returned.                                          *)
C16_NoRetry ==
    \A r \in Reqs : \A name \in StepCalls : Count(r, name) <= 1

C16_Witness ==
    \E r \in Reqs :
        /\ pc[r] = "done"
        /\ obs[r].path = "direct"
        /\ obs[r].fac.kind = "timeout"
        /\ resp[r].status = 402
        /\ Count(r, "verify_payment") = 1

LedgerRows(trade_id) == {i \in 1..Len(ledger) : ledger[i].trade_id = trade_id}

RowOf(r) ==
    [agent_id |-> req[r].agent,
     contract_ticker |-> req[r].contract,
     quantity |-> req[r].quantity.v,
     side |-> req[r].side,
     trade_id |-> tradeId[r],
     price |-> price[r],
     total_cost |-> price[r] * req[r].quantity.v,
     payment_tx_hash |-> req[r].proof]

SuccessBacked ==
    \A r \in Reqs :
        /\ (pc[r] = "done" /\ resp[r].status = 200)
             => /\ resp[r].error = "success"
                /\ obs[r].path \in {"escrow", "direct"}
                /\ ~VerificationFailed(r)
                /\ tradeId[r] # 0 /\ tradeId[r] <= orders
                /\ Cardinality(LedgerRows(tradeId[r])) = 1
                /\ \A i \in LedgerRows(tradeId[r]) : ledger[i] = RowOf(r)
                /\ resp[r].trade_id = tradeId[r]
                /\ resp[r].total_cost = price[r] * req[r].quantity.v
        /\ (pc[r] = "done" /\ resp[r].status # 200 /\ tradeId[r] # 0)
             => LedgerRows(tradeId[r]) = {}

LedgerAppendOnly ==
    ledger' # ledger
    => \E r \in Reqs :
          /\ pc[r] = "record" /\ pc'[r] = "done"
          /\ resp'[r].status = 200
          /\ ledger' = Append(ledger, RowOf(r))

(* C17: a request answered 200 success had its payment verified, holds   *)
(* the exchange's trade id and has exactly one ledger row, made of its   *)
(* own agent, contract, quantity, side, trade id, price and raw proof;   *)
(* its response carries that trade id and price x quantity. The ledger   *)
(* changes only by the append of such a request, and a request answered  *)
(* otherwise has no row.                                                 *)
C17_SuccessIffRecorded == []SuccessBacked /\ [][LedgerAppendOnly]_vars

C17_Witness ==
    \E r \in Reqs :
        /\ pc[r] = "done"
        /\ resp[r].status = 200
        /\ req[r].proof = Prefixed(HashA)
        /\ Len(ledger) > 0
        /\ ledger[Len(ledger)].payment_tx_hash = Prefixed(HashA)
        /\ ledger[Len(ledger)].trade_id = resp[r].trade_id

(* C18: on the escrow path the trade is submitted only when the record   *)
(* read in the request is active, its amount is within 0.01 of quoted    *)
(* price x quantity and its recipient is the configured one up to letter *)
(* case; a request failing one of the three is answered 402 and submits  *)
(* no trade.                                                             *)
C18_EscrowTradeNeedsThreeChecks ==
    \A r \in Reqs :
        obs[r].path = "escrow"
        => /\ Has(r, "execute_trade") => ReadMatches(r)
           /\ ~ReadMatches(r)
                => (pc[r] = "done" /\ resp[r].status = 402 /\ ~Has(r, "execute_trade"))

C18_Witness ==
    \E r \in Reqs :
        /\ obs[r].path = "escrow"
        /\ Has(r, "execute_trade")
        /\ obs[r].read.trade.recipient = Lower(RecipientAddress)
        /\ obs[r].read.trade.recipient # RecipientAddress
        /\ obs[r].read.trade.amount = price[r] * req[r].quantity.v + Tolerance

ReadFailed(r) == obs[r].path = "escrow" /\ ~obs[r].read.ok

(* C19: when the contract read fails, verify_deposit returns (false,     *)
(* empty) and the request is answered 402 "Escrow deposit not found"     *)
(* with verify_deposit as its last call.                                 *)
C19_ReadFailureIsNotFound ==
    \A r \in Reqs :
        ReadFailed(r)
        => /\ verify_deposit(obs[r].read) = [active |-> FALSE, info |-> EmptyInfo]
           /\ pc[r] = "done"
           /\ resp[r].status = 402
           /\ resp[r].error = "Escrow deposit not found"
           /\ resp[r].required_amount = price[r] * req[r].quantity.v
           /\ LastCall(r) = "verify_deposit"

C19_Witness ==
    \E r \in Reqs :
        /\ ReadFailed(r)
        /\ IsActive(escrow[TradeHashBytes(r)])
        /\ resp[r].error = "Escrow deposit not found"

CallIndex(r, name) == CHOOSE i \in 1..Len(calls[r]) : calls[r][i] = name

(* C20: a request calls release_funds only after the exchange returned a *)
(* trade id and refund_funds only after it reported failure, never both, *)
(* and neither without escrow configured or on the non-escrow path,      *)
(* where a failed trade is answered with refunded = false.               *)
C20_ReleaseXorRefund ==
    \A r \in Reqs :
        /\ ~(Has(r, "release_funds") /\ Has(r, "refund_funds"))
        /\ Has(r, "release_funds")
             => /\ tradeId[r] # 0
                /\ Has(r, "execute_trade")
                /\ CallIndex(r, "execute_trade") < CallIndex(r, "release_funds")
        /\ Has(r, "refund_funds")
             => /\ tradeId[r] = 0
                /\ Has(r, "execute_trade")
                /\ CallIndex(r, "execute_trade") < CallIndex(r, "refund_funds")
        /\ (~escrowOn \/ obs[r].path = "direct")
             => (~Has(r, "release_funds") /\ ~Has(r, "refund_funds"))
        /\ (pc[r] = "done" /\ obs[r].path = "direct"
              /\ Has(r, "execute_trade") /\ tradeId[r] = 0)
             => (resp[r].status = 500 /\ resp[r].refunded = "false")

C20_Witness ==
    \E r \in Reqs :
        /\ ~escrowOn
        /\ pc[r] = "done"
        /\ req[r].proof = HashA
        /\ obs[r].path = "direct"
        /\ Has(r, "execute_trade") /\ tradeId[r] = 0
        /\ resp[r].refunded = "false"

ExecutionFailure(r) == pc[r] = "done" /\ resp[r].error = "Trade execution failed"

(* C21: an execution-failure response carries refunded = true exactly    *)
(* when the request called refund_funds, whether that call raised, was   *)
(* sent, or was later rejected by the contract.                          *)
C21_RefundedMeansAttempted ==
    \A r \in Reqs :
        ExecutionFailure(r)
        => /\ resp[r].status = 500
           /\ resp[r].refunded \in {"true", "false"}
           /\ (resp[r].refunded = "true") <=> Has(r, "refund_funds")

(* the refund was sent and mined, and the record is still not refunded *)
C21_Witness ==
    \E r \in Reqs :
        /\ ExecutionFailure(r)
        /\ resp[r].refunded = "true"
        /\ obs[r].settle = "sent"
        /\ txCount > nonce[r]
        /\ ~escrow[TradeHashBytes(r)].refunded

(* ------------------------------------------------------------------ *)
(* _verify_on_chain on a mined, successful transaction                  *)
(* ------------------------------------------------------------------ *)
MinedOk ==
    /\ IsTxHash(Ensure0x(unitCall.tx_hash))
    /\ NodeAnswer.tx = "found"
    /\ NodeAnswer.receipt = "ok"
    /\ NodeAnswer.refetch = "found"

SameAddress(a, b) == a.id = b.id

LogPays(log) ==
    /\ SameAddress(log.address, UsdcOf(EnvChain))
    /\ log.decodes
    /\ SameAddress(log.to, unitCall.recipient_address)
    /\ Abs(log.value - unitCall.expected_amount) < Tolerance

PayingLogs == {i \in 1..Len(NodeAnswer.logs) : LogPays(NodeAnswer.logs[i])}

Holds(c) == unitCall.rpc[c].tx = "found"

FirstHolder ==
    IF \E i \in 1..Len(ChainOrder) : Holds(ChainOrder[i])
    THEN ChainOrder[CHOOSE i \in 1..Len(ChainOrder) :
                        /\ Holds(ChainOrder[i])
                        /\ \A j \in 1..(i - 1) : ~Holds(ChainOrder[j])]
    ELSE "ethereum"

(* C23: without a chain, the chain used is the first of the registry     *)
(* whose node returns the transaction, nodes that raise being skipped,   *)
(* and ethereum when none does; with a chain, that chain is used without *)
(* regard to the other nodes, an unknown name being verified against the *)
(* ethereum configuration.                                               *)
C23_FirstChainHoldingTx ==
    unitRet.op = "detect_chain"
    => /\ unitCall.chain = None
            => /\ unitRet.value.chain = FirstHolder
               /\ unitRet.value.result = (\E c \in ChainNames : Holds(c))
       /\ unitCall.chain \in ChainNames
            => /\ unitRet.value.chain = unitCall.chain
               /\ unitRet.value.result = Holds(unitCall.chain)
       /\ unitCall.chain = UnknownChain
            => /\ unitRet.value.chain = UnknownChain
               /\ unitRet.value.result = Holds("ethereum")

(* the first chain's node raises, the second and the third both hold the *)
(* transaction, and the second is used                                    *)
C23_Witness ==
    /\ unitRet.op = "detect_chain"
    /\ unitCall.chain = None
    /\ unitCall.rpc[ChainOrder[1]].tx = "error"
    /\ Holds(ChainOrder[2])
    /\ Holds(ChainOrder[3])
    /\ unitRet.value.chain = ChainOrder[2]
    /\ unitRet.value.result

(* ------------------------------------------------------------------ *)
(* Escrow records under settlement                                      *)
(* ------------------------------------------------------------------ *)
Terminal(trade) == trade.released \/ trade.refunded

NeverReleasedAndRefunded ==
    \A k \in EscrowKeys : ~(escrow[k].released /\ escrow[k].refunded)

TerminalStays ==
    \A k \in EscrowKeys : Terminal(escrow[k]) => escrow'[k] = escrow[k]

(* C24: no escrow record is ever both released and refunded, and a       *)
(* record that is released or refunded never changes again, whatever the *)
(* requests submit.                                                      *)
C24_TerminalOnce == []NeverReleasedAndRefunded /\ [][TerminalStays]_vars

(* a settlement transaction built after the record became terminal: its *)
(* nonce was read when every mined transaction had been mined            *)
C24_Witness ==
    \E tx \in mempool :
        /\ txCount > 0
        /\ tx.nonce = txCount
        /\ Terminal(escrow[tx.key])

(* ------------------------------------------------------------------ *)
(* Termination of a request                                             *)
(* ------------------------------------------------------------------ *)
OneResponse ==
    \A r \in Reqs :
        resp[r] # NoResponse => (resp'[r] = resp[r] \/ pc'[r] = "closed")

(* a request that submitted the trade ran on to the ledger write, or to  *)
(* the failure of the trade                                              *)
RunsToCompletion(r) ==
    (pc[r] = "done" /\ Has(r, "execute_trade"))
    => \/ tradeId[r] = 0 /\ resp[r].error = "Trade execution failed"
       \/ tradeId[r] # 0 /\ LastCall(r) = "record_trade"

(* what a step that failed or timed out leaves in the response *)
StepFailureSurfaces(r) ==
    pc[r] = "done"
    => /\ (WellFormed(req[r]) /\ price[r] = NoAmount)
            => resp[r].error = "Failed to get current price"
       /\ (obs[r].path = "escrow" /\ ~obs[r].read.ok) => resp[r].status = 402
       /\ (obs[r].path = "direct" /\ LastCall(r) = "verify_payment")
            => resp[r].error = "Payment verification failed"
       /\ (Has(r, "execute_trade") /\ tradeId[r] = 0)
            => resp[r].error = "Trade execution failed"
       /\ (obs[r].settle = "raised" /\ LastCall(r) = "record_trade" /\ LedgerHas(tradeId[r]))
            => resp[r].status = 200

(* some request has been accepted and has not been answered yet *)
InFlight == \E r \in Reqs : pc[r] \notin {"idle", "done", "closed"}

Responded(r) == (pc[r] = "done") <=> (resp[r] # NoResponse)

(* C25 as claimed: no step's failure or timeout ends a request with the  *)
(* answer of an unhandled exception.                                      *)
C25_EveryTimeoutHandled ==
    \A r \in Reqs :
        (pc[r] = "done" /\ Len(calls[r]) > 0 /\ LastCall(r) # "require_payment")
        => resp[r] # InternalServerError

C25_OutcomeOfEachStep ==
    \A r \in Reqs :
        /\ Responded(r)
        /\ RunsToCompletion(r)
        /\ StepFailureSurfaces(r)
        /\ (pc[r] = "done" /\ resp[r] = InternalServerError /\ Len(calls[r]) > 0)
             => \/ LastCall(r) = "require_payment"
                \/ LastCall(r) = "record_trade" /\ ~LedgerHas(tradeId[r])

(* C25 amended: every request that is being processed ends with one      *)
(* response, which then stays; once the trade is submitted the request   *)
(* runs to the ledger write or to the trade's failure; a failed or timed *)
(* out quote, verification, trade, release or refund shows as that       *)
(* step's own outcome, and only a failed ledger write ends a request     *)
(* past the challenge with the answer of an unhandled exception.          *)
C25_EndsWithOneResponse ==
    /\ []C25_OutcomeOfEachStep
    /\ [][OneResponse]_vars
    /\ InFlight ~> ~InFlight

(* the trade timed out on the escrow path, the refund raised, and the    *)
(* request ended with the execution failure                              *)
C25_Witness ==
    \E r \in Reqs :
        /\ pc[r] = "done"
        /\ calls[r] = <<"get_current_price", "verify_deposit", "execute_trade",
                        "refund_funds">>
        /\ obs[r].settle = "raised"
        /\ resp[r].error = "Trade execution failed"
        /\ resp[r].status = 500

(* ------------------------------------------------------------------ *)
(* A trade hash presented again by a later request                      *)
(* ------------------------------------------------------------------ *)
VerifiesNow(r) == pc[r] = "verify" /\ pc'[r] # "verify"

RecordMatches(r, trade) ==
    /\ trade.agent # ZeroAddress
    /\ ~Terminal(trade)
    /\ Abs(trade.amount - price[r] * req[r].quantity.v) <= Tolerance
    /\ trade.recipient.id = RecipientAddress.id

(* C26: on the escrow path a request whose trade hash has a released or  *)
(* refunded record is answered 402 by its verification step and no trade *)
(* is submitted; a request whose record is still active and matches in   *)
(* amount and recipient passes verification and goes on to submit a      *)
(* trade, whatever earlier requests did with the same hash.              *)
C26_TerminalRefusedActiveReused ==
    [][\A r \in Reqs :
         (VerifiesNow(r) /\ EscrowPath(r) /\ TradeHashBytes(r) \in EscrowKeys)
         => /\ Terminal(escrow[TradeHashBytes(r)])
                 => /\ pc'[r] = "done"
                    /\ resp'[r].status = 402
                    /\ orders' = orders
            /\ (RecordMatches(r, escrow[TradeHashBytes(r)]) /\ obs'[r].read.ok)
                 => pc'[r] = "execute"]_vars

(* an earlier request traded on the hash and its release was confirmed;  *)
(* the later request with the same hash has been refused                 *)
C26_Witness ==
    \E r \in Reqs :
        /\ pc[r] = "done" /\ resp[r].status = 402
        /\ obs[r].path = "escrow" /\ obs[r].read.ok
        /\ obs[r].read.trade.released
        /\ ~Has(r, "execute_trade")
        /\ Len(ledger) = 1
        /\ ledger[1].payment_tx_hash = req[r].proof
        /\ orders = 1
        /\ txCount > 0

(* the earlier request's release failed, the record stayed active and    *)
(* the later request with the same hash holds a second order             *)
C26_ReusedWhileActive ==
    \E r \in Reqs :
        /\ obs[r].path = "escrow" /\ ReadMatches(r)
        /\ tradeId[r] = 2
        /\ Len(ledger) >= 1
        /\ ledger[1].payment_tx_hash = req[r].proof
        /\ txCount = 0 /\ mempool = {}

(* ------------------------------------------------------------------ *)
(* A transaction reference presented again                              *)
(* ------------------------------------------------------------------ *)
DirectVerdict(r) ==
    verify_payment(req[r].proof, price[r] * req[r].quantity.v, RecipientAddress,
                   EnvChain, obs[r].fac, obs[r].rpc).result

(* C27: on the non-escrow path the verdict on a proof is the one         *)
(* verify_payment gives for the proof, the amount required now and what  *)
(* the facilitator and the chain answered, whatever the ledger holds: a  *)
(* proof it accepts is never refused, a proof it rejects is answered 402 *)
(* without a trade.                                                      *)
C27_NoMemoryOfProofs ==
    \A r \in Reqs :
        obs[r].path = "direct"
        => /\ DirectVerdict(r)
                => ~(pc[r] = "done" /\ resp[r].error = "Payment verification failed")
           /\ ~DirectVerdict(r)
                => /\ pc[r] = "done" /\ resp[r].status = 402
                   /\ ~Has(r, "execute_trade")

(* the same transaction reference was accepted by two requests in turn:  *)
(* two orders and two ledger rows with one payment_tx_hash               *)
C27_Witness ==
    \E r \in Reqs :
        /\ pc[r] = "done" /\ resp[r].status = HttpOk
        /\ obs[r].path = "direct"
        /\ Len(ledger) = 2
        /\ ledger[1].payment_tx_hash = req[r].proof
        /\ ledger[2].payment_tx_hash = req[r].proof
        /\ ledger[1].trade_id # ledger[2].trade_id
        /\ ledger[1].total_cost = ledger[2].total_cost
        /\ ledger[1].quantity = ledger[2].quantity
        /\ orders = 2

(* ------------------------------------------------------------------ *)
(* What a proof is checked against                                      *)
(* ------------------------------------------------------------------ *)
QuotedNow(r) == price[r] * req[r].quantity.v

ReadActive(r) ==
    /\ obs[r].path = "escrow"
    /\ obs[r].read.ok
    /\ obs[r].read.trade.agent # ZeroAddress
    /\ ~Terminal(obs[r].read.trade)

(* C28: a deposit is checked against the price quoted in the request     *)
(* that carries the proof times its quantity: an active deposit is       *)
(* answered "Amount mismatch" exactly when it differs from that amount   *)
(* by more than the tolerance, every 402 names that amount, and a trade  *)
(* that went through is reported and recorded at that quote.             *)
C28_CheckedAgainstCurrentQuote ==
    \A r \in Reqs :
        /\ ReadActive(r)
             => ((pc[r] = "done" /\ resp[r].error = "Amount mismatch")
                  <=> Abs(obs[r].read.trade.amount - QuotedNow(r)) > Tolerance)
        /\ (pc[r] = "done" /\ resp[r].status = 402)
             => resp[r].required_amount = QuotedNow(r)
        /\ (pc[r] = "done" /\ resp[r].status = HttpOk)
             => /\ resp[r].total_cost = QuotedNow(r)
                /\ \A i \in LedgerRows(tradeId[r]) :
                       /\ ledger[i].price = price[r]
                       /\ ledger[i].total_cost = QuotedNow(r)

(* a request without a proof was quoted Unit; the next request pays a    *)
(* deposit of exactly that amount, is quoted two cents more and is       *)
(* answered 402                                                          *)
C28_Witness ==
    \E q \in Reqs, r \in Reqs :
        /\ q < r
        /\ pc[q] = "done" /\ req[q].proof = NoProof /\ price[q] = Unit
        /\ req[r].contract = req[q].contract
        /\ req[r].side = req[q].side
        /\ req[r].quantity = req[q].quantity
        /\ price[r] = MovedUnit
        /\ ReadActive(r)
        /\ obs[r].read.trade.amount = QuotedNow(q)
        /\ obs[r].read.trade.recipient = RecipientAddress
        /\ pc[r] = "done" /\ resp[r].status = 402
        /\ ~Has(r, "execute_trade")

(* ------------------------------------------------------------------ *)
(* Whose deposit a request may use                                      *)
(* ------------------------------------------------------------------ *)
Refused(r) == pc[r] = "done" /\ resp[r].status = 402

====
